---- MODULE Spec2Model ----
(***************************************************************************)
(* A model of the mirascope call layer:                                    *)
(*   - mirascope_span / wrap_mirascope_class_functions (base/ops_utils.py) *)
(*   - OpenAIStream.construct_call_response (core/openai/stream.py)        *)
(*   - setup_call / setup_extract / openai_api_calculate_cost              *)
(*     (core/openai/_utils.py)                                             *)
(*   - GeminiCall.call / call_async / stream / stream_async                *)
(*     (gemini/calls.py)                                                   *)
(*   - extract_tool_return (core/openai/_utils.py)                         *)
(* Each part has its own specification; the variables of the other parts   *)
(* stay at their idle values.                                              *)
(***************************************************************************)
EXTENDS Integers, Sequences, FiniteSets, TLC

\* ------------------------------------------------------------------------
\* Bounds
\* ------------------------------------------------------------------------
\* longest sequence of values the underlying generator method produces
MaxYield == 2
\* values range over 1..MaxVal
MaxVal == 2
\* longest stream, in chunks
MaxChunks == 3
\* how many times one class is instrumented
MaxWraps == 2
\* token counts range over 0, 500, ..., 500 * MaxTokenUnits
MaxTokenUnits == 2
\* longest string value of a JSON document, in characters
MaxLen == 2

Values == 1..MaxVal

\* all sequences over S of length at most n
SeqUpTo(S, n) == UNION {[1..k -> S] : k \in 0..n}

\* Python's None
None == "None"

VARIABLES
    \* ---- one call of a method wrapped by mirascope_span ----
    cfg,                 \* the call: fn's kind, the hooks, what fn does
    pc,                  \* position of the wrapper
    events,              \* what has happened so far, in order
    before_call,         \* value returned by handle_before_call
    result_before_call,  \* value bound by "with before_call as ..."
    entered,             \* the scoped resource is entered and not exited
    output,              \* accumulated values (generator wrappers)
    received,            \* values handed to the caller (generator wrappers)
    result,              \* fn's result (value wrappers)
    afterCalls,          \* arguments of each handle_after_call invocation
    exc,                 \* exception in flight
    outcome,             \* how the call ended, as the caller sees it
    \* ---- one OpenAIStream ----
    stream,              \* the chunks the provider will send
    stream_state,        \* "idle", "open" (being iterated) or "exhausted"
    stream_pos,          \* chunks iterated so far
    content,             \* self.content, aggregated from the chunks
    has_message_param,   \* hasattr(self, "message_param")
    message_param,       \* self.message_param
    input_tokens,        \* self.input_tokens
    output_tokens,       \* self.output_tokens
    response,            \* outcome of the last construct_call_response()
    \* ---- one class given to wrap_mirascope_class_functions ----
    cls,                 \* the class: member name -> member
    wrap_count,          \* how many times the class has been instrumented
    wrap_returned,       \* what the last instrumentation returned
    \* ---- one call of setup_call or setup_extract ----
    fn_doc,              \* inspect.getdoc(fn)
    fn_args,             \* the caller's fn_args dict
    fn_return,           \* the caller's function return
    tools,               \* the caller's static tool list
    call_params,         \* the caller's static call params
    given,               \* the caller's objects as they were passed in
    setup_op,            \* "idle", "ready", or the function that has run
    parse_calls,         \* how many times the template parser was called
    ret,                 \* what the function returned or raised
    \* ---- one call of openai_api_calculate_cost ----
    usage,               \* the usage argument
    model,               \* the model argument
    cost_state,          \* "idle", "ready" or "done"
    total_cost,          \* what the call returned
    \* ---- one call of a GeminiCall method ----
    gemini_call,         \* the method, the prompt's template and attributes,
                         \* and what the vendor will answer
    gemini_pc,           \* position of the method
    gemini_messages,     \* the value of self.messages, once evaluated
    gemini_requests,     \* the generate_content requests issued, in order
    gemini_yielded,      \* chunks yielded to the caller (stream methods)
    gemini_exc,          \* the exception that left the method, "" if none
    \* ---- one call of extract_tool_return ----
    response_model,      \* the response_model argument
    json_output,         \* the json_output argument, as JSON tokens
    allow_partial,       \* the allow_partial argument
    full_output,         \* the complete document json_output is cut from
    extract_state,       \* "idle", "ready" or "done"
    extract_ret          \* what the call returned or raised

spanVars == <<cfg, pc, events, before_call, result_before_call, entered,
              output, received, result, afterCalls, exc, outcome>>

streamVars == <<stream, stream_state, stream_pos, content, has_message_param,
                message_param, input_tokens, output_tokens, response>>

wrapVars == <<cls, wrap_count, wrap_returned>>

setupVars == <<fn_doc, fn_args, fn_return, tools, call_params, given,
               setup_op, parse_calls, ret>>

costVars == <<usage, model, cost_state, total_cost>>

geminiVars == <<gemini_call, gemini_pc, gemini_messages, gemini_requests,
                gemini_yielded, gemini_exc>>

extractVars == <<response_model, json_output, allow_partial, full_output,
                 extract_state, extract_ret>>

vars == <<spanVars, streamVars, wrapVars, setupVars, costVars, geminiVars,
          extractVars>>

\* the variables of the other parts
notSpanVars == <<streamVars, wrapVars, setupVars, costVars,
                 geminiVars, extractVars>>
notStreamVars == <<spanVars, wrapVars, setupVars, costVars,
                 geminiVars, extractVars>>
notWrapVars == <<spanVars, streamVars, setupVars, costVars,
                 geminiVars, extractVars>>
notSetupVars == <<spanVars, streamVars, wrapVars, costVars,
                 geminiVars, extractVars>>
notCostVars == <<spanVars, streamVars, wrapVars, setupVars,
                 geminiVars, extractVars>>
notGeminiVars == <<spanVars, streamVars, wrapVars, setupVars, costVars,
                   extractVars>>
notExtractVars == <<spanVars, streamVars, wrapVars, setupVars, costVars,
                    geminiVars>>

\* ------------------------------------------------------------------------
\* mirascope_span
\* ------------------------------------------------------------------------
\* calling conventions of a function, as told apart by inspect
FnKinds == {"function", "coroutine", "generator", "asyncgen"}

\* the wrapper mirascope_span returns for fn
SelectWrapperNoAsyncGen(kind) ==
    IF kind = "coroutine" THEN "wrapper_async"
    ELSE IF kind = "generator" THEN "wrapper_generator"
    ELSE "wrapper"
SelectWrapper(kind) ==
    IF kind = "asyncgen" THEN "wrapper_generator_async"
    ELSE IF kind = "coroutine" THEN "wrapper_async"
    ELSE IF kind = "generator" THEN "wrapper_generator"
    ELSE "wrapper"

\* the calling convention of each wrapper (def / async def, with or
\* without yield)
WrapperKind(w) ==
    CASE w = "wrapper_generator_async" -> "asyncgen"
      [] w = "wrapper_async" -> "coroutine"
      [] w = "wrapper_generator" -> "generator"
      [] w = "wrapper" -> "function"

IsGeneratorWrapper(w) == w \in {"wrapper_generator", "wrapper_generator_async"}

\* what handle_before_call can be: absent, returning a plain value, or
\* returning a context manager
BeforeHooks == {None, "value", "context_manager"}

SpanCalls ==
    [kind : FnKinds,
     handle_before_call : BeforeHooks,
     handle_after_call : {None, "hook"},
     fnValues : SeqUpTo(Values, MaxYield),
     fnRaises : BOOLEAN,
     afterRaises : BOOLEAN]

SpanFresh ==
    /\ events = <<>>
    /\ before_call = None
    /\ result_before_call = None
    /\ entered = FALSE
    /\ output = <<>>
    /\ received = <<>>
    /\ result = None
    /\ afterCalls = <<>>
    /\ exc = None
    /\ outcome = "running"

\* a call of a wrapped method is about to start
SpanInit ==
    /\ cfg \in SpanCalls
    /\ pc = "start"
    /\ SpanFresh

\* no wrapped method is being called
SpanIdle ==
    /\ cfg = [kind |-> "function", handle_before_call |-> None,
              handle_after_call |-> None, fnValues |-> <<>>,
              fnRaises |-> FALSE, afterRaises |-> FALSE]
    /\ pc = "idle"
    /\ SpanFresh

ThisWrapper == SelectWrapper(cfg.kind)
IsGen == IsGeneratorWrapper(ThisWrapper)

\* isinstance(before_call, AbstractContextManager)
IsContextManager(b) == b = "context_manager"

\* before_call = handle_before_call(...) if handle_before_call is not None
\* else None
BeforeCallValue(hook) == hook

\* where the wrapper goes once before_call is known
PcAfterBeforeSkipsEnter(b) == "call_fn"
PcAfterBefore(b) == IF IsContextManager(b) THEN "with_enter" ELSE "call_fn"

\* the value __enter__ returns
EnterValue == "entered_value"

Before ==
    /\ pc = "start"
    /\ before_call' = BeforeCallValue(cfg.handle_before_call)
    /\ events' = IF cfg.handle_before_call # None
                 THEN Append(events, "before") ELSE events
    /\ pc' = PcAfterBefore(before_call')
    /\ UNCHANGED <<cfg, result_before_call, entered, output, received,
                   result, afterCalls, exc, outcome>>
    /\ UNCHANGED notSpanVars

\* with before_call as result_before_call:
Enter ==
    /\ pc = "with_enter"
    /\ entered' = TRUE
    /\ result_before_call' = EnterValue
    /\ events' = Append(events, "enter")
    /\ pc' = "call_fn"
    /\ UNCHANGED <<cfg, before_call, output, received, result, afterCalls,
                   exc, outcome>>
    /\ UNCHANGED notSpanVars

\* where the wrapper goes when fn raises: no wrapper catches anything, so
\* the exception leaves the wrapper and handle_after_call is passed by
PcAfterFnRaisesRunsAfter(gen) == "after"
PcAfterFnRaises(gen) == "unwind"

\* result = fn(self, *args, **kwargs): runs fn for the value wrappers,
\* makes the generator object (and output = []) for the generator wrappers
CallFn ==
    /\ pc = "call_fn"
    /\ events' = Append(events, "fn")
    /\ IF IsGen
       THEN /\ output' = <<>>
            /\ pc' = "pull"
            /\ UNCHANGED <<result, exc>>
       ELSE IF cfg.fnRaises
            THEN /\ exc' = "fn_error"
                 /\ pc' = PcAfterFnRaises(IsGen)
                 /\ UNCHANGED <<result, output>>
            ELSE /\ result' = cfg.fnValues
                 /\ pc' = "after"
                 /\ UNCHANGED <<exc, output>>
    /\ UNCHANGED <<cfg, before_call, result_before_call, entered, received,
                   afterCalls, outcome>>
    /\ UNCHANGED notSpanVars

\* output.append(value)
AppendOutput(out, value) == Append(out, value)

\* where the generator wrapper goes after appending a value: "yield value"
PcAfterAppendKeepsPulling == "pull"
PcAfterAppend == "yield"

\* for value in result: output.append(value) -- one step of the underlying
\* generator, which yields its next value, returns or raises
Pull ==
    /\ pc = "pull"
    /\ IF Len(output) < Len(cfg.fnValues)
       THEN /\ output' = AppendOutput(output, cfg.fnValues[Len(output) + 1])
            /\ events' = Append(events, "pull")
            /\ pc' = PcAfterAppend
            /\ UNCHANGED exc
       ELSE IF cfg.fnRaises
            THEN /\ exc' = "fn_error"
                 /\ pc' = PcAfterFnRaises(IsGen)
                 /\ UNCHANGED <<output, events>>
            ELSE /\ pc' = "after"
                 /\ UNCHANGED <<output, exc, events>>
    /\ UNCHANGED <<cfg, before_call, result_before_call, entered, received,
                   result, afterCalls, outcome>>
    /\ UNCHANGED notSpanVars

\* yield value: the caller receives the value just appended
Yield ==
    /\ pc = "yield"
    /\ received' = Append(received, output[Len(output)])
    /\ events' = Append(events, "yield")
    /\ pc' = "suspended"
    /\ UNCHANGED <<cfg, before_call, result_before_call, entered, output,
                   result, afterCalls, exc, outcome>>
    /\ UNCHANGED notSpanVars

\* the caller asks for the next value
Resume ==
    /\ pc = "suspended"
    /\ pc' = "pull"
    /\ UNCHANGED <<cfg, events, before_call, result_before_call, entered,
                   output, received, result, afterCalls, exc, outcome>>
    /\ UNCHANGED notSpanVars

\* the caller abandons the iteration and the suspended generator is closed:
\* GeneratorExit is raised at the yield
Close ==
    /\ pc = "suspended"
    /\ exc' = "GeneratorExit"
    /\ pc' = "unwind"
    /\ UNCHANGED <<cfg, events, before_call, result_before_call, entered,
                   output, received, result, afterCalls, outcome>>
    /\ UNCHANGED notSpanVars

\* the with branch runs iff before_call is a context manager
UsesWith == IsContextManager(before_call)

\* third argument of handle_after_call: result, or output for generators
AfterResult(gen, res, out) == IF gen THEN out ELSE res

\* fourth argument of handle_after_call
AfterBeforeArg(with, b, rb) == IF with THEN rb ELSE b

\* if handle_after_call is not None: handle_after_call(...)
After ==
    /\ pc = "after"
    /\ IF cfg.handle_after_call # None
       THEN /\ afterCalls' = Append(afterCalls,
                  [result |-> AfterResult(IsGen, result, output),
                   before |-> AfterBeforeArg(UsesWith, before_call,
                                             result_before_call)])
            /\ events' = Append(events, "after")
            /\ IF cfg.afterRaises
               THEN exc' = "after_error" /\ pc' = "unwind"
               ELSE pc' = "leave" /\ UNCHANGED exc
       ELSE /\ pc' = "leave"
            /\ UNCHANGED <<afterCalls, events, exc>>
    /\ UNCHANGED <<cfg, before_call, result_before_call, entered, output,
                   received, result, outcome>>
    /\ UNCHANGED notSpanVars

\* leaving the with block: __exit__ runs on the normal path and on the
\* exception path alike
EnteredAfterWithLeaks(with, ent, raising) ==
    IF with /\ ~raising THEN FALSE ELSE ent
EnteredAfterWith(with, ent, raising) == IF with THEN FALSE ELSE ent

\* return result / end of the generator
Leave ==
    /\ pc = "leave"
    /\ entered' = EnteredAfterWith(UsesWith, entered, FALSE)
    /\ events' = IF entered /\ ~entered'
                 THEN Append(events, "exit") ELSE events
    /\ outcome' = "returned"
    /\ pc' = "done"
    /\ UNCHANGED <<cfg, before_call, result_before_call, output, received,
                   result, afterCalls, exc>>
    /\ UNCHANGED notSpanVars

\* an exception leaves the wrapper
Unwind ==
    /\ pc = "unwind"
    /\ entered' = EnteredAfterWith(UsesWith, entered, TRUE)
    /\ events' = IF entered /\ ~entered'
                 THEN Append(events, "exit") ELSE events
    /\ outcome' = IF exc = "GeneratorExit" THEN "closed" ELSE "raised"
    /\ pc' = "done"
    /\ UNCHANGED <<cfg, before_call, result_before_call, output, received,
                   result, afterCalls, exc>>
    /\ UNCHANGED notSpanVars

SpanNext ==
    \/ Before
    \/ Enter
    \/ CallFn
    \/ Pull
    \/ Yield
    \/ Resume
    \/ Close
    \/ After
    \/ Leave
    \/ Unwind

\* ------------------------------------------------------------------------
\* OpenAIStream
\* ------------------------------------------------------------------------
NoMessageParam == [role |-> "unset", content |-> <<>>]
NoResponse == [kind |-> "none", content |-> <<>>, usage |-> <<>>]

StreamFresh ==
    /\ stream_pos = 0
    /\ content = <<>>
    /\ has_message_param = FALSE
    /\ message_param = NoMessageParam
    /\ response = NoResponse

\* a stream returned by a call, not yet iterated
StreamInit ==
    /\ stream \in SeqUpTo(Values, MaxChunks)
    /\ stream_state = "open"
    /\ input_tokens \in 0..1
    /\ output_tokens \in 0..1
    /\ StreamFresh

StreamIdle ==
    /\ stream = <<>>
    /\ stream_state = "idle"
    /\ input_tokens = 0
    /\ output_tokens = 0
    /\ StreamFresh

\* the iteration hands the next chunk to the consumer and aggregates its
\* content
NextChunk ==
    /\ stream_state = "open"
    /\ stream_pos < Len(stream)
    /\ stream_pos' = stream_pos + 1
    /\ content' = Append(content, stream[stream_pos + 1])
    /\ UNCHANGED <<stream, stream_state, has_message_param, message_param,
                   input_tokens, output_tokens, response>>
    /\ UNCHANGED notStreamVars

\* _construct_message_param(tool_calls=None, content)
ConstructMessageParam(c) == [role |-> "assistant", content |-> c]

\* the iteration finds the stream exhausted: the stream is now consumed and
\* its message_param is set
EndOfStream ==
    /\ stream_state = "open"
    /\ stream_pos = Len(stream)
    /\ stream_state' = "exhausted"
    /\ has_message_param' = TRUE
    /\ message_param' = ConstructMessageParam(content)
    /\ UNCHANGED <<stream, stream_pos, content, input_tokens, output_tokens,
                   response>>
    /\ UNCHANGED notStreamVars

\* if not hasattr(self, "message_param"): raise ValueError(...)
StreamNotConsumedUnchecked(has) == FALSE
StreamNotConsumed(has) == ~has

\* usage = None if not self.input_tokens and not self.output_tokens
\* else CompletionUsage(...)
StreamUsage(it, ot) ==
    IF it = 0 /\ ot = 0 THEN <<>>
    ELSE <<[prompt_tokens |-> it, completion_tokens |-> ot,
            total_tokens |-> it + ot]>>

\* what construct_call_response() does: raise ValueError, or return the
\* response built from message_param
CallResponseOf(has, mp, it, ot) ==
    IF StreamNotConsumed(has)
    THEN [kind |-> "ValueError", content |-> <<>>, usage |-> <<>>]
    ELSE [kind |-> "response", content |-> mp.content,
          usage |-> StreamUsage(it, ot)]

ConstructCallResponse ==
    /\ stream_state # "idle"
    /\ response' = CallResponseOf(has_message_param, message_param,
                                  input_tokens, output_tokens)
    /\ UNCHANGED <<stream, stream_state, stream_pos, content,
                   has_message_param, message_param, input_tokens,
                   output_tokens>>
    /\ UNCHANGED notStreamVars

StreamNext ==
    \/ NextChunk
    \/ EndOfStream
    \/ ConstructCallResponse

\* ------------------------------------------------------------------------
\* wrap_mirascope_class_functions
\* ------------------------------------------------------------------------
\* the member names of the class
Names == {"call", "stream", "_setup", "copy", "messages"}

\* name.startswith("_"), over Names
StartsWithUnderscore(name) == name \in {"_setup"}

ignore_functions ==
    {"copy", "dict", "dump", "json", "messages", "model_copy", "model_dump",
     "model_dump_json", "model_post_init"}

\* a member is a function of some calling convention, under the wrappers
\* put around it so far (innermost first), or something else (a property,
\* a bound class method, a plain attribute)
Members ==
    [type : {"function"}, kind : FnKinds, wrappers : {<<>>}]
        \cup {[type |-> "other", kind |-> "function", wrappers |-> <<>>]}

\* the calling convention inspect sees: that of the outermost wrapper
Convention(m) ==
    IF m.wrappers = <<>> THEN m.kind
    ELSE WrapperKind(m.wrappers[Len(m.wrappers)])

\* inspect.getmembers(cls, predicate=inspect.isfunction)
FunctionMembers(c) == {name \in DOMAIN c : c[name].type = "function"}

\* if not name.startswith("_") and name not in ignore_functions
ToWrap(c) ==
    {name \in FunctionMembers(c) :
        ~StartsWithUnderscore(name) /\ name \notin ignore_functions}

\* mirascope_span(getattr(cls, name), ...)
Span(m) == [m EXCEPT !.wrappers = Append(@, SelectWrapper(Convention(m)))]

WrapInit ==
    /\ cls \in [Names -> Members]
    /\ wrap_count = 0
    /\ wrap_returned = "nothing"

WrapIdle ==
    /\ cls = [name \in Names |->
                 [type |-> "other", kind |-> "function", wrappers |-> <<>>]]
    /\ wrap_count = 0
    /\ wrap_returned = "idle"

\* wrap_mirascope_class_functions(cls, ...): setattr on cls for every member
\* to wrap, then return cls
WrapClass ==
    /\ wrap_returned # "idle"
    /\ wrap_count < MaxWraps
    /\ cls' = [name \in DOMAIN cls |->
                 IF name \in ToWrap(cls) THEN Span(cls[name]) ELSE cls[name]]
    /\ wrap_count' = wrap_count + 1
    /\ wrap_returned' = "cls"
    /\ UNCHANGED notWrapVars

WrapNext ==
    \/ WrapClass

\* ------------------------------------------------------------------------
\* setup_call / setup_extract
\* ------------------------------------------------------------------------
\* an optional value: <<>> is None, <<x>> is the value x
NoneOpt == <<>>
Some(x) == <<x>>

\* truth value of an optional dict / an optional list
TruthyDict(o) == Len(o) = 1 /\ DOMAIN o[1] # {}
TruthyList(o) == Len(o) = 1 /\ Len(o[1]) > 0

EmptyDict == [k \in {} |-> 0]

\* a | b on dicts: the right operand's value wins on a common key
Merge(a, b) ==
    [k \in (DOMAIN a) \cup (DOMAIN b) |-> IF k \in DOMAIN b THEN b[k] ELSE a[k]]

\* d[key] = value
SetKey(d, key, value) ==
    [k \in (DOMAIN d) \cup {key} |-> IF k = key THEN value ELSE d[k]]

\* a dict over "x" and "y"; 0 stands for a key that is absent
MkArgs(x, y) ==
    [k \in {j \in {"x"} : x # 0} \cup {j \in {"y"} : y # 0} |->
        IF k = "x" THEN x ELSE y]

\* the fn_args the caller passes
FnArgsSet == {MkArgs(x, y) : x \in {0} \cup Values, y \in {0, 1}}
\* the computed_fields a function return may carry
ComputedSet == {MkArgs(x, y) : x \in {0, MaxVal}, y \in {0, 2}}

\* inspect.getdoc(fn): no docstring, or a template of role-marked parts,
\* each with one placeholder
Docstrings ==
    {NoneOpt,
     Some(<<[role |-> "user", text |-> "Recommend", key |-> "x"]>>),
     Some(<<[role |-> "model", text |-> "Sure", key |-> "x"]>>),
     Some(<<[role |-> "system", text |-> "You are", key |-> "y"],
            [role |-> "user", text |-> "Recommend", key |-> "x"]>>)}

\* the message list a function return may carry
GivenMessages ==
    <<[role |-> "assistant",
       content |-> [text |-> "given", value |-> 0, schema |-> ""]]>>

\* call params: a dict over "temperature" and "response_format"; 0 and ""
\* stand for a key that is absent
MkParams(t, rf) ==
    [k \in {j \in {"temperature"} : t # 0}
            \cup {j \in {"response_format"} : rf # ""} |->
        IF k = "temperature" THEN t
        ELSE IF rf = "no_type" THEN [schema |-> "s"] ELSE [type |-> rf]]

StaticParams == {MkParams(t, rf) : t \in {0, 1}, rf \in {"", "json_object"}}
DynamicParams ==
    {MkParams(t, rf) : t \in {0, 2}, rf \in {"", "text", "no_type"}}

\* the function return: None, or a dict whose keys are all optional
FnReturns ==
    [present : {TRUE},
     computed_fields : {NoneOpt} \cup {Some(c) : c \in ComputedSet},
     tools : {NoneOpt, Some(<<>>), Some(<<"Other">>), Some(<<"Other", "Extract">>)},
     messages : {NoneOpt, Some(<<>>), Some(GivenMessages)},
     call_params : {NoneOpt} \cup {Some(p) : p \in DynamicParams}]
        \cup {[present |-> FALSE, computed_fields |-> NoneOpt, tools |-> NoneOpt,
               messages |-> NoneOpt, call_params |-> NoneOpt]}

NoRet ==
    [kind |-> "none", exc |-> "", prompt_template |-> NoneOpt, messages |-> <<>>,
     tool_types |-> NoneOpt, call_kwargs |-> EmptyDict, json_mode |-> FALSE]

SetupInit ==
    /\ fn_doc \in Docstrings
    /\ fn_args \in FnArgsSet
    /\ fn_return \in FnReturns
    /\ tools \in {NoneOpt, Some(<<"Other">>)}
    /\ call_params \in StaticParams
    /\ given = [fn_args |-> fn_args, fn_return |-> fn_return,
                tools |-> tools, call_params |-> call_params]
    /\ setup_op = "ready"
    /\ parse_calls = 0
    /\ ret = NoRet

SetupIdle ==
    /\ fn_doc = NoneOpt
    /\ fn_args = EmptyDict
    /\ fn_return = [present |-> FALSE, computed_fields |-> NoneOpt,
                    tools |-> NoneOpt, messages |-> NoneOpt,
                    call_params |-> NoneOpt]
    /\ tools = NoneOpt
    /\ call_params = EmptyDict
    /\ given = [fn_args |-> fn_args, fn_return |-> fn_return,
                tools |-> tools, call_params |-> call_params]
    /\ setup_op = "idle"
    /\ parse_calls = 0
    /\ ret = NoRet

roles == {"system", "user", "assistant", "tool"}

\* the error parse_prompt_messages raises, "" if none
ParseError(template, attrs) ==
    IF \E i \in 1..Len(template) : template[i].role \notin roles
    THEN "UnknownRole"
    ELSE IF \E i \in 1..Len(template) : template[i].key \notin DOMAIN attrs
    THEN "MissingArgument"
    ELSE ""

\* _utils.parse_prompt_messages(roles, template, attrs): one message per
\* part, its placeholder replaced by the value of attrs
parse_prompt_messages(template, attrs) ==
    [i \in 1..Len(template) |->
        [role |-> template[i].role,
         content |-> [text |-> template[i].text,
                      value |-> attrs[template[i].key],
                      schema |-> ""]]]

\* call_kwargs = call_params.copy();
\* if dynamic_call_params: call_kwargs |= dynamic_call_params
MergedParamsStaticWins(static, dynamic) ==
    IF TruthyDict(dynamic) THEN Merge(dynamic[1], static) ELSE static
MergedParams(static, dynamic) ==
    IF TruthyDict(dynamic) THEN Merge(static, dynamic[1]) ELSE static

\* if computed_fields: fn_args |= computed_fields
MergedArgsExplicitWins(args, computed) ==
    IF TruthyDict(computed) THEN Merge(computed[1], args) ELSE args
MergedArgs(args, computed) ==
    IF TruthyDict(computed) THEN Merge(args, computed[1]) ELSE args

\* prompt_template: set from the docstring only when the messages are parsed
TemplateReturnedAlways(parse, doc) == doc
TemplateReturned(parse, doc) == IF parse THEN doc ELSE NoneOpt

\* convert_base_model_to_base_tool(tool, OpenAITool) and tool_schema()
ToolType(tool) == [name |-> tool, base |-> "OpenAITool"]
ToolSchema(tool_type) == [type |-> "function", name |-> tool_type.name]
\* the value of call_kwargs["tools"]: None, or a list of schemas
ToolsValue(schemas) == [none |-> FALSE, list |-> schemas]
NoneTools == [none |-> TRUE, list |-> <<>>]

\* setup_call: what it returns or raises, fn_args as it leaves them, and
\* whether it called the parser
setup_call(doc, args, fret, tls, cparams) ==
    LET computed_fields == IF fret.present THEN fret.computed_fields ELSE NoneOpt
        tools1 == IF fret.present /\ Len(fret.tools) = 1 THEN fret.tools ELSE tls
        messages0 == IF fret.present THEN fret.messages ELSE NoneOpt
        dynamic_call_params == IF fret.present THEN fret.call_params ELSE NoneOpt
        call_kwargs0 == MergedParams(cparams, dynamic_call_params)
        parse == ~TruthyList(messages0)
        has_doc == Len(doc) = 1
        args1 == IF parse /\ has_doc THEN MergedArgs(args, computed_fields) ELSE args
        err == IF ~parse THEN ""
               ELSE IF ~has_doc THEN "AssertionError"
               ELSE ParseError(doc[1], args1)
        tool_types == IF TruthyList(tools1)
                      THEN Some([i \in 1..Len(tools1[1]) |-> ToolType(tools1[1][i])])
                      ELSE NoneOpt
        call_kwargs == IF TruthyList(tools1)
                       THEN SetKey(call_kwargs0, "tools",
                                ToolsValue([i \in 1..Len(tools1[1]) |->
                                               ToolSchema(tool_types[1][i])]))
                       ELSE call_kwargs0
    IN  [ret |-> IF err # ""
                 THEN [NoRet EXCEPT !.kind = "raise", !.exc = err]
                 ELSE [kind |-> "return", exc |-> "",
                       prompt_template |-> TemplateReturned(parse, doc),
                       messages |-> IF parse
                                    THEN parse_prompt_messages(doc[1], args1)
                                    ELSE messages0[1],
                       tool_types |-> tool_types,
                       call_kwargs |-> call_kwargs,
                       json_mode |-> FALSE],
         fn_args |-> args1,
         parser_called |-> parse /\ has_doc,
         messages_given |-> ~parse]

SetupCall ==
    /\ setup_op = "ready"
    /\ LET r == setup_call(fn_doc, fn_args, fn_return, tools, call_params)
       IN  /\ ret' = r.ret
           /\ fn_args' = r.fn_args
           /\ parse_calls' = parse_calls + (IF r.parser_called THEN 1 ELSE 0)
    /\ setup_op' = "setup_call"
    /\ UNCHANGED <<fn_doc, fn_return, tools, call_params, given>>
    /\ UNCHANGED notSetupVars

\* the tool setup_extract is given
response_tool == "Extract"

\* bool(response_format and "type" in response_format
\*      and response_format["type"] == "json_object")
JsonMode(response_format) ==
    /\ Len(response_format) = 1
    /\ "type" \in DOMAIN response_format[1]
    /\ response_format[1]["type"] = "json_object"

\* the user message that asks for a JSON object of the tool's schema
Instruction(tool_type) ==
    [role |-> "user",
     content |-> [text |-> "Extract a valid JSON object instance from the content using this schema:",
                  value |-> 0,
                  schema |-> tool_type.name]]

\* setup_extract: what it returns or raises, fn_args as it leaves them,
\* whether it called the parser, and whether it appended to the message
\* list of the function return
setup_extract(doc, args, fret, tool, cparams) ==
    LET r == setup_call(doc, args, fret, Some(<<tool>>), cparams)
        \* _, messages, [tool_type], call_kwargs = setup_call(...)
        unpack_err == IF Len(r.ret.tool_types) = 0 THEN "TypeError"
                      ELSE IF Len(r.ret.tool_types[1]) # 1 THEN "ValueError"
                      ELSE ""
        tool_type == r.ret.tool_types[1][1]
        response_format ==
            IF "response_format" \in DOMAIN r.ret.call_kwargs
            THEN Some(r.ret.call_kwargs["response_format"]) ELSE NoneOpt
        json_mode == JsonMode(response_format)
    IN  IF r.ret.kind = "raise" THEN [r EXCEPT !.messages_given = FALSE]
        ELSE IF unpack_err # ""
        THEN [r EXCEPT !.ret = [NoRet EXCEPT !.kind = "raise", !.exc = unpack_err],
                       !.messages_given = FALSE]
        ELSE IF json_mode
        THEN [r EXCEPT
                !.ret = [kind |-> "return", exc |-> "",
                         prompt_template |-> NoneOpt,
                         messages |-> Append(r.ret.messages, Instruction(tool_type)),
                         tool_types |-> NoneOpt,
                         call_kwargs |-> SetKey(r.ret.call_kwargs, "tools", NoneTools),
                         json_mode |-> TRUE]]
        ELSE [r EXCEPT
                !.ret = [kind |-> "return", exc |-> "",
                         prompt_template |-> NoneOpt,
                         messages |-> r.ret.messages,
                         tool_types |-> NoneOpt,
                         call_kwargs |->
                            SetKey(SetKey(r.ret.call_kwargs, "tools",
                                          ToolsValue(<<ToolSchema(tool_type)>>)),
                                   "tool_choice", "required"),
                         json_mode |-> FALSE],
                !.messages_given = FALSE]

\* messages.append(...) in JSON mode acts on the list object setup_call
\* returned, which is the function return's own list when that was used
SetupExtract ==
    /\ setup_op = "ready"
    /\ LET r == setup_extract(fn_doc, fn_args, fn_return, response_tool, call_params)
       IN  /\ ret' = r.ret
           /\ fn_args' = r.fn_args
           /\ parse_calls' = parse_calls + (IF r.parser_called THEN 1 ELSE 0)
           /\ fn_return' = IF r.messages_given
                           THEN [fn_return EXCEPT !.messages = Some(r.ret.messages)]
                           ELSE fn_return
    /\ setup_op' = "setup_extract"
    /\ UNCHANGED <<fn_doc, tools, call_params, given>>
    /\ UNCHANGED notSetupVars

SetupNext ==
    \/ SetupCall
    \/ SetupExtract

\* ------------------------------------------------------------------------
\* openai_api_calculate_cost
\* ------------------------------------------------------------------------
\* the pricing table, per token, in units of 10^-9 dollars
pricing ==
    ("gpt-4o" :> [prompt |-> 5000, completion |-> 15000]) @@
    ("gpt-4o-2024-05-13" :> [prompt |-> 5000, completion |-> 15000]) @@
    ("gpt-4-turbo" :> [prompt |-> 10000, completion |-> 30000]) @@
    ("gpt-4-turbo-2024-04-09" :> [prompt |-> 10000, completion |-> 30000]) @@
    ("gpt-3.5-turbo-0125" :> [prompt |-> 500, completion |-> 1500]) @@
    ("gpt-3.5-turbo-1106" :> [prompt |-> 1000, completion |-> 2000]) @@
    ("gpt-4-1106-preview" :> [prompt |-> 10000, completion |-> 30000]) @@
    ("gpt-4" :> [prompt |-> 3000, completion |-> 6000]) @@
    ("gpt-3.5-turbo-4k" :> [prompt |-> 15000, completion |-> 20000]) @@
    ("gpt-3.5-turbo-16k" :> [prompt |-> 3000, completion |-> 4000]) @@
    ("gpt-4-8k" :> [prompt |-> 3000, completion |-> 6000]) @@
    ("gpt-4-32k" :> [prompt |-> 6000, completion |-> 12000]) @@
    ("text-embedding-3-small" :> [prompt |-> 20, completion |-> 20]) @@
    ("text-embedding-ada-002" :> [prompt |-> 100, completion |-> 100]) @@
    ("text-embedding-3-large" :> [prompt |-> 130, completion |-> 130])

\* model names a caller may pass: those of the table and two that are not
ModelNames == (DOMAIN pricing) \cup {"gpt-5-unknown", "text-embedding-ada-0002"}

\* the pricing table of the docstring: dollars per 1M tokens, written in
\* cents (so $30.00 is 3000); the embedding models have an input price only
documented_pricing ==
    ("gpt-4o" :> [input |-> 500, output |-> Some(1500)]) @@
    ("gpt-4o-2024-05-13" :> [input |-> 500, output |-> Some(1500)]) @@
    ("gpt-4-turbo" :> [input |-> 1000, output |-> Some(3000)]) @@
    ("gpt-4-turbo-2024-04-09" :> [input |-> 1000, output |-> Some(3000)]) @@
    ("gpt-3.5-turbo-0125" :> [input |-> 50, output |-> Some(150)]) @@
    ("gpt-3.5-turbo-1106" :> [input |-> 100, output |-> Some(200)]) @@
    ("gpt-4-1106-preview" :> [input |-> 1000, output |-> Some(3000)]) @@
    ("gpt-4" :> [input |-> 3000, output |-> Some(6000)]) @@
    ("text-embedding-3-small" :> [input |-> 2, output |-> NoneOpt]) @@
    ("text-embedding-3-large" :> [input |-> 13, output |-> NoneOpt]) @@
    ("text-embedding-ada-0002" :> [input |-> 10, output |-> NoneOpt])

\* usage: None, or prompt and completion token counts
Usages ==
    {NoneOpt} \cup
    {Some([prompt_tokens |-> 500 * p, completion_tokens |-> 500 * c]) :
        p \in 0..MaxTokenUnits, c \in 0..MaxTokenUnits}

NoCost == [kind |-> "none", value |-> 0]
\* return None
CostNone == [kind |-> "None", value |-> 0]

CostInit ==
    /\ usage \in Usages
    /\ model \in ModelNames
    /\ cost_state = "ready"
    /\ total_cost = NoCost

CostIdle ==
    /\ usage = NoneOpt
    /\ model = "gpt-3.5-turbo-16k"
    /\ cost_state = "idle"
    /\ total_cost = NoCost

\* pricing[model]: the entry, or KeyError
PricingLookup(m) ==
    IF m \in DOMAIN pricing
    THEN [error |-> "", entry |-> pricing[m]]
    ELSE [error |-> "KeyError", entry |-> [prompt |-> 0, completion |-> 0]]

\* except KeyError: return None
CatchesNothing(error) == FALSE
CatchesKeyError(error) == error = "KeyError"

\* openai_api_calculate_cost(usage, model): None, the total cost, or the
\* exception that leaves it
openai_api_calculate_cost(u, m) ==
    IF u = NoneOpt THEN CostNone
    ELSE LET model_pricing == PricingLookup(m)
             prompt_cost == u[1].prompt_tokens * model_pricing.entry.prompt
             completion_cost ==
                 u[1].completion_tokens * model_pricing.entry.completion
         IN  IF model_pricing.error # ""
             THEN IF CatchesKeyError(model_pricing.error) THEN CostNone
                  ELSE [kind |-> "raise", value |-> 0]
             ELSE [kind |-> "value", value |-> prompt_cost + completion_cost]

CalculateCost ==
    /\ cost_state = "ready"
    /\ total_cost' = openai_api_calculate_cost(usage, model)
    /\ cost_state' = "done"
    /\ UNCHANGED <<usage, model>>
    /\ UNCHANGED notCostVars

CostNext ==
    \/ CalculateCost

\* ------------------------------------------------------------------------
\* GeminiCall.call / call_async / stream / stream_async
\* ------------------------------------------------------------------------
GeminiMethods == {"call", "call_async", "stream", "stream_async"}
\* stream and stream_async are generator functions
GeminiIsStream(method) == method \in {"stream", "stream_async"}

\* the roles GeminiCall.messages accepts
gemini_roles == {"model", "user", "tool"}

\* the prompt's template: one or two role-marked parts, each with one
\* placeholder; "system" is not a Gemini role
GeminiTemplates ==
    SeqUpTo([role : {"user", "model", "system"}, text : {"text"},
             key : {"x", "y"}], 2) \ {<<>>}

\* what the vendor does with a request: answers, or fails
VendorAnswers == {"ok", "error"}

GeminiCalls ==
    {c \in [method : GeminiMethods, template : GeminiTemplates,
            attrs : FnArgsSet, vendor : VendorAnswers, chunks : 0..MaxChunks] :
        GeminiIsStream(c.method) \/ c.chunks = 0}

GeminiInit ==
    /\ gemini_call \in GeminiCalls
    /\ gemini_pc = "start"
    /\ gemini_messages = NoneOpt
    /\ gemini_requests = <<>>
    /\ gemini_yielded = 0
    /\ gemini_exc = ""

GeminiIdle ==
    /\ gemini_call = [method |-> "call", template |-> <<>>, attrs |-> EmptyDict,
                      vendor |-> "ok", chunks |-> 0]
    /\ gemini_pc = "idle"
    /\ gemini_messages = NoneOpt
    /\ gemini_requests = <<>>
    /\ gemini_yielded = 0
    /\ gemini_exc = ""

\* the error self._parse_messages(roles) raises, "" if none
GeminiParseError(allowed, template, attrs) ==
    IF \E i \in 1..Len(template) : template[i].role \notin allowed
    THEN "UnknownRole"
    ELSE IF \E i \in 1..Len(template) : template[i].key \notin DOMAIN attrs
    THEN "MissingArgument"
    ELSE ""

\* self._parse_messages(roles): one message per part, its placeholder
\* replaced by the prompt's attribute
_parse_messages(allowed, template, attrs) ==
    [i \in 1..Len(template) |->
        [role |-> template[i].role,
         parts |-> [text |-> template[i].text,
                    value |-> attrs[template[i].key]]]]

\* the arguments of generate_content are evaluated before it is called:
\* after _setup and GenerativeModel(...) comes self.messages
GeminiPcAfterSetupRequestsFirst(method) == "request"
GeminiPcAfterSetup(method) == "messages"

\* kwargs, tool_types = self._setup(kwargs, GeminiTool);
\* gemini_pro_model = GenerativeModel(kwargs.pop("model"))
\* (for stream and stream_async, at the caller's first pull)
GeminiSetup ==
    /\ gemini_pc = "start"
    /\ gemini_pc' = GeminiPcAfterSetup(gemini_call.method)
    /\ UNCHANGED <<gemini_call, gemini_messages, gemini_requests,
                   gemini_yielded, gemini_exc>>
    /\ UNCHANGED notGeminiVars

\* self.messages, the first argument of generate_content: the parsed
\* message list, or the parser's exception, which leaves the method
GeminiMessages ==
    /\ gemini_pc = "messages"
    /\ LET err == GeminiParseError(gemini_roles, gemini_call.template,
                                   gemini_call.attrs)
       IN  IF err # ""
           THEN /\ gemini_exc' = err
                /\ gemini_pc' = "raised"
                /\ UNCHANGED gemini_messages
           ELSE /\ gemini_messages' =
                       Some(_parse_messages(gemini_roles, gemini_call.template,
                                            gemini_call.attrs))
                /\ gemini_pc' = "request"
                /\ UNCHANGED gemini_exc
    /\ UNCHANGED <<gemini_call, gemini_requests, gemini_yielded>>
    /\ UNCHANGED notGeminiVars

\* gemini_pro_model.generate_content(...) / generate_content_async(...):
\* the request goes to the vendor, which answers or fails
GeminiRequest ==
    /\ gemini_pc = "request"
    /\ gemini_requests' =
           Append(gemini_requests,
                  [contents |-> gemini_messages,
                   stream |-> GeminiIsStream(gemini_call.method)])
    /\ IF gemini_call.vendor = "error"
       THEN /\ gemini_exc' = "VendorError"
            /\ gemini_pc' = "raised"
       ELSE /\ gemini_pc' = IF GeminiIsStream(gemini_call.method)
                            THEN "streaming" ELSE "returned"
            /\ UNCHANGED gemini_exc
    /\ UNCHANGED <<gemini_call, gemini_messages, gemini_yielded>>
    /\ UNCHANGED notGeminiVars

\* for chunk in stream: yield GeminiCallResponseChunk(...)
GeminiYield ==
    /\ gemini_pc = "streaming"
    /\ gemini_yielded < gemini_call.chunks
    /\ gemini_yielded' = gemini_yielded + 1
    /\ UNCHANGED <<gemini_call, gemini_pc, gemini_messages, gemini_requests,
                   gemini_exc>>
    /\ UNCHANGED notGeminiVars

\* the vendor's stream is exhausted: the generator returns
GeminiEndOfStream ==
    /\ gemini_pc = "streaming"
    /\ gemini_yielded = gemini_call.chunks
    /\ gemini_pc' = "returned"
    /\ UNCHANGED <<gemini_call, gemini_messages, gemini_requests,
                   gemini_yielded, gemini_exc>>
    /\ UNCHANGED notGeminiVars

GeminiNext ==
    \/ GeminiSetup
    \/ GeminiMessages
    \/ GeminiRequest
    \/ GeminiYield
    \/ GeminiEndOfStream

\* ------------------------------------------------------------------------
\* extract_tool_return
\* ------------------------------------------------------------------------
\* A JSON document is a flat object with one string member per field of
\* the model, written as a sequence of tokens; a string token holds its
\* characters and whether its closing quote has been written.
Chars == {"a", "b"}
StringValues == SeqUpTo(Chars, MaxLen)

Punct(t) == [t |-> t, chars |-> <<>>, closed |-> TRUE]
Str(chars) == [t |-> "str", chars |-> chars, closed |-> TRUE]

\* the values of the field declared Literal
GenreValues == {<<"a", "b">>, <<"b">>}

\* the response models: two BaseModel classes and the base type str
ResponseModels == {"Book", "Note", "str"}

\* _utils.is_base_type(response_model)
is_base_type(rm) == rm = "str"

\* the fields of a model class: name, type and whether it is required
ModelFields(rm) ==
    IF rm = "Book"
    THEN <<[name |-> "title", type |-> "str", required |-> TRUE],
           [name |-> "genre", type |-> "Literal", required |-> TRUE]>>
    ELSE <<[name |-> "title", type |-> "str", required |-> TRUE],
           [name |-> "text", type |-> "str", required |-> TRUE]>>

\* _utils.convert_base_type_to_base_tool(response_model, BaseModel): a model
\* with the one field "value"
convert_base_type_to_base_tool(rm) ==
    <<[name |-> "value", type |-> "str", required |-> TRUE]>>

\* the fields of temp_model
TempModel(rm) ==
    IF is_base_type(rm) THEN convert_base_type_to_base_tool(rm)
    ELSE ModelFields(rm)

\* the text of the object with the given field values
Encode(fields, values) ==
    [i \in 1..(4 * Len(fields) + 1) |->
        IF i = 1 THEN Punct("{")
        ELSE LET j == ((i - 2) \div 4) + 1
                 r == (i - 2) % 4
             IN  IF r = 0 THEN Str(<<fields[j].name>>)
                 ELSE IF r = 1 THEN Punct(":")
                 ELSE IF r = 2 THEN Str(values[j])
                 ELSE IF j = Len(fields) THEN Punct("}") ELSE Punct(",")]

\* the complete documents for a model
Documents(rm) ==
    {Encode(TempModel(rm), values) :
        values \in [1..Len(TempModel(rm)) -> StringValues]}

\* the text cut after k characters of its n-th token (a string token cut
\* anywhere before its closing quote stays open)
Truncate(tokens, n, k) ==
    [i \in 1..n |->
        IF i = n /\ tokens[n].t = "str" /\ k <= Len(tokens[n].chars)
        THEN [t |-> "str", chars |-> SubSeq(tokens[n].chars, 1, k),
              closed |-> FALSE]
        ELSE tokens[i]]

\* the places a text can be cut at: inside or after each token
Cuts(tokens) ==
    {c \in [n : 1..Len(tokens), k : 0..(MaxLen + 2)] :
        IF tokens[c.n].t = "str" THEN c.k <= Len(tokens[c.n].chars) + 1
        ELSE c.k = 0}

IsComplete(tokens) == tokens[Len(tokens)].t = "}"

ExtractFresh == [kind |-> "none", exc |-> "", output |-> NoneOpt]

ExtractInit ==
    /\ response_model \in ResponseModels
    /\ full_output \in Documents(response_model)
    /\ \E c \in Cuts(full_output) : json_output = Truncate(full_output, c.n, c.k)
    /\ allow_partial \in BOOLEAN
    /\ extract_state = "ready"
    /\ extract_ret = ExtractFresh

ExtractIdle ==
    /\ response_model = "str"
    /\ full_output = <<>>
    /\ json_output = <<>>
    /\ allow_partial = FALSE
    /\ extract_state = "idle"
    /\ extract_ret = ExtractFresh

\* the members of the text whose value has begun: member j has its key at
\* token 4j - 2 and its value at token 4j
MembersBegun(tokens) == {j \in 1..Len(tokens) : 4 * j <= Len(tokens)}

\* the object of the given members
ObjectOf(tokens, members) ==
    [name \in {tokens[4 * j - 2].chars[1] : j \in members} |->
        LET j == CHOOSE m \in members : tokens[4 * m - 2].chars[1] = name
        IN  tokens[4 * j].chars]

\* jiter.from_json(data, partial_mode=...): "off" fails on an incomplete
\* text; "on" drops the value that is incomplete; "trailing-strings" keeps
\* the last string even when it is incomplete
from_json(tokens, partial_mode) ==
    IF partial_mode = "off" /\ ~IsComplete(tokens)
    THEN [error |-> "ValueError", obj |-> EmptyDict]
    ELSE [error |-> "",
          obj |-> ObjectOf(tokens,
                     {j \in MembersBegun(tokens) :
                         tokens[4 * j].closed
                           \/ partial_mode = "trailing-strings"})]

\* the partial mode extract_tool_return asks for
PartialMode == "trailing-strings"

\* _partial.partial(temp_model): every field optional, None by default
partial(fields) ==
    [i \in 1..Len(fields) |-> [fields[i] EXCEPT !.required = FALSE]]

\* validation of one field's value
FieldAccepts(field, value) ==
    field.type = "Literal" => value \in GenreValues

\* model.model_validate(obj): the instance, or ValidationError
model_validate(fields, obj) ==
    IF \E i \in 1..Len(fields) :
          \/ fields[i].name \notin DOMAIN obj /\ fields[i].required
          \/ fields[i].name \in DOMAIN obj
               /\ ~FieldAccepts(fields[i], obj[fields[i].name])
    THEN [error |-> "ValidationError", instance |-> EmptyDict]
    ELSE [error |-> "",
          instance |->
            [name \in {fields[i].name : i \in 1..Len(fields)} |->
                IF name \in DOMAIN obj THEN Some(obj[name]) ELSE NoneOpt]]

\* model.model_validate_json(json_output)
model_validate_json(fields, tokens) ==
    LET parsed == from_json(tokens, "off")
    IN  IF parsed.error # ""
        THEN [error |-> "ValidationError", instance |-> EmptyDict]
        ELSE model_validate(fields, parsed.obj)

\* extract_tool_return(response_model, json_output, allow_partial)
extract_tool_return(rm, tokens, partial_allowed) ==
    LET temp_model == TempModel(rm)
        json_obj == from_json(tokens, PartialMode)
        validated ==
            IF partial_allowed
            THEN IF json_obj.error # ""
                 THEN [error |-> json_obj.error, instance |-> EmptyDict]
                 ELSE model_validate(partial(temp_model), json_obj.obj)
            ELSE model_validate_json(temp_model, tokens)
    IN  IF validated.error # ""
        THEN [kind |-> "raise", exc |-> validated.error, output |-> NoneOpt]
        ELSE [kind |-> "return", exc |-> "",
              output |-> IF is_base_type(rm) THEN validated.instance["value"]
                         ELSE Some(validated.instance)]

ExtractToolReturn ==
    /\ extract_state = "ready"
    /\ extract_ret' = extract_tool_return(response_model, json_output,
                                          allow_partial)
    /\ extract_state' = "done"
    /\ UNCHANGED <<response_model, json_output, allow_partial, full_output>>
    /\ UNCHANGED notExtractVars

ExtractNext ==
    \/ ExtractToolReturn

\* ------------------------------------------------------------------------
\* Specifications: one per part, and the whole
\* ------------------------------------------------------------------------
InitSpan ==
    /\ SpanInit /\ StreamIdle /\ WrapIdle /\ SetupIdle /\ CostIdle
    /\ GeminiIdle /\ ExtractIdle
SpecSpan == InitSpan /\ [][SpanNext]_vars

InitStream ==
    /\ StreamInit /\ SpanIdle /\ WrapIdle /\ SetupIdle /\ CostIdle
    /\ GeminiIdle /\ ExtractIdle
SpecStream == InitStream /\ [][StreamNext]_vars

InitWrap ==
    /\ WrapInit /\ SpanIdle /\ StreamIdle /\ SetupIdle /\ CostIdle
    /\ GeminiIdle /\ ExtractIdle
SpecWrap == InitWrap /\ [][WrapNext]_vars

InitSetup ==
    /\ SetupInit /\ SpanIdle /\ StreamIdle /\ WrapIdle /\ CostIdle
    /\ GeminiIdle /\ ExtractIdle
SpecSetup == InitSetup /\ [][SetupNext]_vars

InitCost ==
    /\ CostInit /\ SpanIdle /\ StreamIdle /\ WrapIdle /\ SetupIdle
    /\ GeminiIdle /\ ExtractIdle
SpecCost == InitCost /\ [][CostNext]_vars

InitGemini ==
    /\ GeminiInit /\ SpanIdle /\ StreamIdle /\ WrapIdle /\ SetupIdle
    /\ CostIdle /\ ExtractIdle
SpecGemini == InitGemini /\ [][GeminiNext]_vars

InitExtract ==
    /\ ExtractInit /\ SpanIdle /\ StreamIdle /\ WrapIdle /\ SetupIdle
    /\ CostIdle /\ GeminiIdle
SpecExtract == InitExtract /\ [][ExtractNext]_vars

\* template parsing in both call layers: GeminiCall's methods and
\* setup_call / setup_extract
InitParsing ==
    \/ InitGemini
    \/ InitSetup
NextParsing ==
    \/ GeminiNext
    \/ SetupNext
SpecParsing == InitParsing /\ [][NextParsing]_vars

\* ---- properties of one wrapped call ----
Occurrences(e) == {i \in 1..Len(events) : events[i] = e}
Happened(e) == Occurrences(e) # {}
\* every occurrence of b comes after an occurrence of a
Precedes(a, b) ==
    \A i \in Occurrences(b) : \E j \in Occurrences(a) : j < i
AtMostOnce(e) == Cardinality(Occurrences(e)) <= 1

\* C1: when handle_before_call returns a scoped resource, one call's events
\* come in the order before, enter, underlying method, after (given the
\* resource's entered value), exit: the method never starts before the
\* resource is entered, and on a successful call the resource is exited
\* only after handle_after_call has run.
C1_ScopedResourceOrder ==
    (pc # "idle" /\ cfg.handle_before_call = "context_manager") =>
        /\ Precedes("before", "enter")
        /\ Precedes("enter", "fn")
        /\ Precedes("fn", "pull")
        /\ Precedes("fn", "after")
        /\ Precedes("pull", "yield")
        /\ \A i \in Occurrences("pull") : \A j \in Occurrences("after") : i < j
        /\ Precedes("enter", "exit")
        /\ \A i \in Occurrences("after") : \A j \in Occurrences("exit") : i < j
        /\ \A e \in {"before", "enter", "fn", "after", "exit"} : AtMostOnce(e)
        /\ Happened("fn") => entered \/ Happened("exit")
        /\ \A i \in 1..Len(afterCalls) : afterCalls[i].before = EnterValue
        /\ (outcome = "returned" /\ cfg.handle_after_call # None) =>
               /\ Happened("after")
               /\ Happened("exit")
        /\ outcome = "returned" => Happened("exit") /\ ~entered

C1_Witness ==
    /\ cfg.handle_before_call = "context_manager"
    /\ cfg.kind = "generator"
    /\ outcome = "returned"
    /\ Len(received) >= 2
    /\ Happened("after")
    /\ events[Len(events)] = "exit"

\* C2: a generator wrapper hands each value of the underlying method to the
\* caller before it pulls the next one, and once the underlying generator
\* is exhausted handle_after_call is invoked exactly once, with the list of
\* the values the caller received, in order.
C2_GeneratorPassThrough ==
    (pc # "idle" /\ IsGen) =>
        /\ Len(output) - Len(received) \in {0, 1}
        /\ pc = "pull" => output = received
        /\ pc = "suspended" => output = received
        /\ output = SubSeq(cfg.fnValues, 1, Len(output))
        /\ received = SubSeq(cfg.fnValues, 1, Len(received))
        /\ Len(afterCalls) <= 1
        /\ \A i \in 1..Len(afterCalls) :
               /\ afterCalls[i].result = received
               /\ received = cfg.fnValues
        /\ (pc \in {"leave", "done"} /\ outcome # "closed" /\ exc # "fn_error"
              /\ cfg.handle_after_call # None) => Len(afterCalls) = 1

C2_Witness ==
    /\ cfg.kind = "asyncgen"
    /\ outcome = "returned"
    /\ Len(afterCalls) = 1
    /\ Len(received) >= 2
    /\ received[1] # received[2]
    /\ afterCalls[1].result = received

\* C4: a scoped resource returned by handle_before_call is exited on every
\* exit path of the call: no call has ended, with an exception from the
\* underlying method or otherwise, while the resource is still entered.
C4_ResourceReleased ==
    outcome # "running" =>
        /\ ~entered
        /\ Happened("enter") => Happened("exit")

C4_Witness ==
    /\ outcome = "raised"
    /\ exc = "fn_error"
    /\ Happened("enter")
    /\ Happened("exit")

\* C3: construct_call_response on a stream that has not been fully
\* iterated raises the explicit error and returns no response; it returns
\* a response only once the stream has been consumed to its end.
C3_NoResponseBeforeConsumed ==
    [][ConstructCallResponse =>
          /\ stream_state # "exhausted" => response'.kind = "ValueError"
          /\ response'.kind = "response" =>
                /\ stream_state = "exhausted"
                /\ stream_pos = Len(stream)
                /\ response'.content = stream
          /\ response'.kind \in {"ValueError", "response"}]_vars

C3_Witness ==
    /\ response.kind = "ValueError"
    /\ stream_state = "open"
    /\ stream_pos >= 1
    /\ stream_pos < Len(stream)

\* C5: wrap_mirascope_class_functions returns the class it was given; every
\* function member whose name neither starts with an underscore nor is in
\* ignore_functions is replaced by a wrapper of the member's own calling
\* convention, and every other member is left as it was.
C5_WrapsPublicFunctions ==
    [][WrapClass =>
          /\ wrap_returned' = "cls"
          /\ DOMAIN cls' = DOMAIN cls
          /\ \A name \in DOMAIN cls :
                IF /\ cls[name].type = "function"
                   /\ ~StartsWithUnderscore(name)
                   /\ name \notin ignore_functions
                THEN /\ Len(cls'[name].wrappers) = Len(cls[name].wrappers) + 1
                     /\ SubSeq(cls'[name].wrappers, 1, Len(cls[name].wrappers))
                            = cls[name].wrappers
                     /\ cls'[name].kind = cls[name].kind
                     /\ cls'[name].type = "function"
                     /\ Convention(cls'[name]) = Convention(cls[name])
                ELSE cls'[name] = cls[name]]_vars

C5_Witness ==
    /\ wrap_returned = "cls"
    /\ wrap_count = 1
    /\ cls["stream"] = [type |-> "function", kind |-> "asyncgen",
                        wrappers |-> <<"wrapper_generator_async">>]
    /\ cls["call"] = [type |-> "function", kind |-> "coroutine",
                      wrappers |-> <<"wrapper_async">>]
    /\ cls["copy"] = [type |-> "function", kind |-> "function",
                      wrappers |-> <<>>]
    /\ cls["_setup"] = [type |-> "function", kind |-> "generator",
                        wrappers |-> <<>>]

\* ---- properties of setup_call and setup_extract ----
\* the function has returned, after parsing the docstring template
ParsedReturn ==
    /\ setup_op \in {"setup_call", "setup_extract"}
    /\ ret.kind = "return"
    /\ parse_calls = 1

GivenComputed == given.fn_return.computed_fields

\* the function return carried a non-empty message list
MessagesSupplied ==
    /\ given.fn_return.present
    /\ TruthyList(given.fn_return.messages)

\* C6 (as amended): when computed fields are merged into the function
\* arguments before substitution, a computed field takes precedence over an
\* explicitly passed argument of the same name; a key in only one of the
\* two comes from that one.
C6_ComputedFieldTakesPrecedence ==
    (ParsedReturn /\ TruthyDict(GivenComputed)) =>
        \A i \in 1..Len(fn_doc[1]) :
            LET k == fn_doc[1][i].key
            IN  ret.messages[i].content.value =
                    IF k \in DOMAIN GivenComputed[1]
                    THEN GivenComputed[1][k] ELSE given.fn_args[k]

\* C6 (as claimed): for every key present in both, the value used for
\* substitution is the explicitly passed one.
C6_ExplicitArgTakesPrecedence ==
    (ParsedReturn /\ TruthyDict(GivenComputed)) =>
        \A i \in 1..Len(fn_doc[1]) :
            LET k == fn_doc[1][i].key
            IN  ret.messages[i].content.value =
                    IF k \in DOMAIN given.fn_args
                    THEN given.fn_args[k] ELSE GivenComputed[1][k]

C6_Witness ==
    /\ ParsedReturn
    /\ TruthyDict(GivenComputed)
    /\ "x" \in DOMAIN given.fn_args
    /\ "x" \in DOMAIN GivenComputed[1]
    /\ given.fn_args["x"] # GivenComputed[1]["x"]
    /\ ret.messages[Len(fn_doc[1])].content.value = GivenComputed[1]["x"]

\* C7 (as amended): when the function return supplies a non-empty message
\* list, setup_call does not call the template parser and returns exactly
\* those messages, and the template text it returns is None: the docstring
\* is not captured.
C7_NoTemplateWhenMessagesGiven ==
    (setup_op = "setup_call" /\ MessagesSupplied) =>
        /\ ret.kind = "return"
        /\ parse_calls = 0
        /\ ret.messages = given.fn_return.messages[1]
        /\ ret.prompt_template = NoneOpt

\* C7 (as claimed): ... and the template text it returns is still the raw
\* template of the function's docstring, not an absent value.
C7_TemplateStillCaptured ==
    (setup_op = "setup_call" /\ MessagesSupplied /\ Len(fn_doc) = 1) =>
        /\ ret.kind = "return"
        /\ parse_calls = 0
        /\ ret.messages = given.fn_return.messages[1]
        /\ ret.prompt_template = fn_doc

C7_Witness ==
    /\ setup_op = "setup_call"
    /\ MessagesSupplied
    /\ Len(fn_doc) = 1
    /\ ret.kind = "return"
    /\ ret.messages = GivenMessages
    /\ ret.prompt_template = NoneOpt

\* the dynamic call params of the function return, {} if there are none
GivenDynamicParams ==
    IF given.fn_return.present /\ Len(given.fn_return.call_params) = 1
    THEN given.fn_return.call_params[1] ELSE EmptyDict

\* the tool list in force: the function return's if it has one, else the
\* static one
GivenTools ==
    IF given.fn_return.present /\ Len(given.fn_return.tools) = 1
    THEN given.fn_return.tools ELSE tools

\* C8: the call params setup_call returns hold the dynamic value for every
\* key of the function return's call params and the static value for every
\* other key of the static call params; no other key is present, except
\* "tools" when there are tools.
C8_DynamicParamsOverride ==
    (setup_op = "setup_call" /\ ret.kind = "return") =>
        /\ \A k \in DOMAIN GivenDynamicParams :
               k \in DOMAIN ret.call_kwargs
                   /\ ret.call_kwargs[k] = GivenDynamicParams[k]
        /\ \A k \in (DOMAIN call_params) \ (DOMAIN GivenDynamicParams) :
               k \in DOMAIN ret.call_kwargs
                   /\ ret.call_kwargs[k] = call_params[k]
        /\ DOMAIN ret.call_kwargs \subseteq
               (DOMAIN GivenDynamicParams) \cup (DOMAIN call_params) \cup {"tools"}
        /\ "tools" \in DOMAIN ret.call_kwargs <=> TruthyList(GivenTools)

C8_Witness ==
    /\ setup_op = "setup_call"
    /\ ret.kind = "return"
    /\ "temperature" \in DOMAIN call_params
    /\ "temperature" \in DOMAIN GivenDynamicParams
    /\ call_params["temperature"] # GivenDynamicParams["temperature"]
    /\ ret.call_kwargs["temperature"] = GivenDynamicParams["temperature"]
    /\ "response_format" \in DOMAIN call_params
    /\ "response_format" \notin DOMAIN GivenDynamicParams
    /\ ret.call_kwargs["response_format"] = call_params["response_format"]

\* the merged call params ask for a JSON object
JsonRequested ==
    /\ "response_format" \in DOMAIN ret.call_kwargs
    /\ "type" \in DOMAIN ret.call_kwargs["response_format"]
    /\ ret.call_kwargs["response_format"]["type"] = "json_object"

\* the length of the message list before setup_extract extends it
BaseMessageCount ==
    IF MessagesSupplied THEN Len(given.fn_return.messages[1]) ELSE Len(fn_doc[1])

\* C9: when the merged call params ask for a JSON object, setup_extract
\* returns kwargs with no tool schemas and no tool choice, and the last
\* message is the user message with the instruction and the extraction
\* tool's schema; otherwise the kwargs carry exactly the extraction tool's
\* schema with tool choice "required" and the message list is not extended.
C9_ExtractUsesExtractionTool ==
    (setup_op = "setup_extract" /\ ret.kind = "return") =>
        IF JsonRequested
        THEN /\ ret.json_mode
             /\ ret.call_kwargs["tools"] = NoneTools
             /\ "tool_choice" \notin DOMAIN ret.call_kwargs
             /\ Len(ret.messages) = BaseMessageCount + 1
             /\ ret.messages[Len(ret.messages)] = Instruction(ToolType(response_tool))
        ELSE /\ ~ret.json_mode
             /\ ret.call_kwargs["tools"] =
                    ToolsValue(<<ToolSchema(ToolType(response_tool))>>)
             /\ ret.call_kwargs["tool_choice"] = "required"
             /\ Len(ret.messages) = BaseMessageCount

\* C9 holds of every call whose function return carries no tools of its own
C9_WithoutDynamicTools ==
    (given.fn_return.present /\ Len(given.fn_return.tools) = 1)
        \/ C9_ExtractUsesExtractionTool

\* C10: the cost lookup never raises: for a model name that is not in the
\* pricing table, or for no usage, it returns None, and for "gpt-4o" it
\* returns prompt_tokens * 0.000005 + completion_tokens * 0.000015, which
\* is 0.0125 for 1000 prompt and 500 completion tokens (costs are in units
\* of 10^-9 dollars).
C10_CostLookupNeverRaises ==
    cost_state = "done" =>
        /\ total_cost.kind \in {"None", "value"}
        /\ (usage = NoneOpt \/ model \notin DOMAIN pricing) =>
               total_cost = CostNone
        /\ (usage # NoneOpt /\ model = "gpt-4o") =>
               /\ total_cost.kind = "value"
               /\ total_cost.value = usage[1].prompt_tokens * 5000
                                       + usage[1].completion_tokens * 15000
               /\ (usage[1].prompt_tokens = 1000
                     /\ usage[1].completion_tokens = 500) =>
                      total_cost.value = 12500000

C10_Witness ==
    /\ cost_state = "done"
    /\ usage # NoneOpt
    /\ model = "gpt-5-unknown"
    /\ total_cost = CostNone

\* a price per 1M tokens in cents, divided by 1,000,000, in units of 10^-9
\* dollars per token (a cent is 10,000,000 such units)
PerToken(per_million) == per_million * (10000000 \div 1000000)

\* the cost the documented prices give for a usage (models without a
\* documented output price: the input part only)
DocumentedCost(m, u) ==
    u.prompt_tokens * PerToken(documented_pricing[m].input)
      + (IF documented_pricing[m].output = NoneOpt THEN 0
         ELSE u.completion_tokens * PerToken(documented_pricing[m].output[1]))

AppliesDocumentedPrices(m, u, c) ==
    /\ c.kind = "value"
    /\ (documented_pricing[m].output # NoneOpt \/ u.completion_tokens = 0) =>
           c.value = DocumentedCost(m, u)

\* C11: for every model listed in the docstring's pricing table, the
\* per-token prompt and completion prices openai_api_calculate_cost applies
\* are the documented per-1M-token input and output prices divided by
\* 1,000,000 (gpt-4: $30.00 and $60.00 per 1M tokens), so the cost of a
\* usage is the one the documented prices give.
C11_AppliedPricesAreDocumented ==
    (cost_state = "done" /\ usage # NoneOpt
        /\ model \in DOMAIN documented_pricing) =>
        AppliesDocumentedPrices(model, usage[1], total_cost)

\* C11 holds of every documented model but gpt-4 and the embedding model
\* the docstring names text-embedding-ada-0002
C11_ExceptGpt4AndAda ==
    model \in {"gpt-4", "text-embedding-ada-0002"}
        \/ C11_AppliedPricesAreDocumented

\* gpt-4 is charged a tenth of the documented prices
C11_Gpt4Tenth ==
    (cost_state = "done" /\ usage # NoneOpt /\ model = "gpt-4") =>
        /\ total_cost.kind = "value"
        /\ 10 * total_cost.value = DocumentedCost(model, usage[1])

\* ---- properties of template parsing ----
\* the error the parser raises for the GeminiCall's template
GeminiTemplateError ==
    GeminiParseError(gemini_roles, gemini_call.template, gemini_call.attrs)

\* setup_call or setup_extract has run and the parser it called failed
SetupParseFailed ==
    /\ setup_op \in {"setup_call", "setup_extract"}
    /\ parse_calls = 1
    /\ ParseError(fn_doc[1], fn_args) # ""

\* C12: a template parsing failure (unknown role or missing argument) is
\* raised before any network call is made. In GeminiCall.call, call_async,
\* stream and stream_async every generate_content request is issued after
\* the message list was parsed and carries the parsed messages, and a call
\* whose template fails to parse ends with the parser's exception and no
\* request; setup_call (alone or inside setup_extract) raises the parser's
\* exception and returns no messages and no call kwargs.
C12_ParseFailureBeforeRequest ==
    /\ \A i \in 1..Len(gemini_requests) :
           /\ GeminiTemplateError = ""
           /\ gemini_requests[i].contents =
                  Some(_parse_messages(gemini_roles, gemini_call.template,
                                       gemini_call.attrs))
    /\ (gemini_pc # "idle" /\ GeminiTemplateError # "") =>
           /\ gemini_requests = <<>>
           /\ gemini_yielded = 0
           /\ gemini_pc \in {"start", "messages", "raised"}
           /\ gemini_pc = "raised" => gemini_exc = GeminiTemplateError
    /\ SetupParseFailed =>
           /\ ret.kind = "raise"
           /\ ret.exc = ParseError(fn_doc[1], fn_args)
           /\ ret.messages = <<>>
           /\ ret.call_kwargs = EmptyDict

C12_Witness ==
    /\ gemini_call.method = "stream_async"
    /\ gemini_pc = "raised"
    /\ gemini_exc = "UnknownRole"
    /\ gemini_requests = <<>>

\* the same failure in the other places the claim names
C12_WitnessMissingArgument ==
    /\ gemini_call.method = "call"
    /\ gemini_pc = "raised"
    /\ gemini_exc = "MissingArgument"
    /\ gemini_requests = <<>>

C12_WitnessSetupCall ==
    /\ SetupParseFailed
    /\ setup_op = "setup_call"
    /\ ret.exc = "UnknownRole"

\* a request is issued when the template parses
C12_WitnessRequest ==
    /\ gemini_pc = "returned"
    /\ Len(gemini_requests) = 1
    /\ gemini_yielded = 2

\* C15: handle_after_call is invoked at most once per call and only on the
\* success path: when the underlying method raises, or the consumer of a
\* generator wrapper abandons the iteration before the underlying generator
\* is exhausted, it is never invoked; an exception raised by the underlying
\* method reaches the caller unchanged; and the underlying method is invoked
\* exactly once (no retry).
C15_AfterOnlyOnSuccess ==
    pc # "idle" =>
        /\ Len(afterCalls) <= 1
        /\ AtMostOnce("after")
        /\ AtMostOnce("fn")
        /\ exc \in {"fn_error", "GeneratorExit"} =>
               (afterCalls = <<>> /\ ~Happened("after"))
        /\ Happened("after") =>
               /\ ~cfg.fnRaises
               /\ Precedes("fn", "after")
               /\ IsGen => (output = cfg.fnValues /\ received = cfg.fnValues)
        /\ pc = "done" =>
               /\ Cardinality(Occurrences("fn")) = 1
               /\ outcome = "closed" => afterCalls = <<>>
               /\ (cfg.fnRaises /\ outcome # "closed") =>
                      (outcome = "raised" /\ exc = "fn_error")

\* the underlying generator raises after the caller has received a value
C15_Witness ==
    /\ pc = "done"
    /\ cfg.kind = "asyncgen"
    /\ cfg.handle_after_call = "hook"
    /\ cfg.handle_before_call = "context_manager"
    /\ Len(received) >= 1
    /\ outcome = "raised"
    /\ exc = "fn_error"
    /\ afterCalls = <<>>
    /\ Cardinality(Occurrences("fn")) = 1

\* the consumer abandons the iteration
C15_WitnessAbandoned ==
    /\ pc = "done"
    /\ cfg.handle_after_call = "hook"
    /\ Len(received) < Len(cfg.fnValues)
    /\ outcome = "closed"
    /\ afterCalls = <<>>

\* ---- frame of setup_call / setup_extract ----
SetupReturned ==
    /\ setup_op \in {"setup_call", "setup_extract"}
    /\ ret.kind = "return"

\* C14: call setup carries no state from one call to the next: after
\* setup_call or setup_extract returns, the objects the caller passed in
\* (the static call_params, the fn_args mapping, the static tool list and
\* the function return with its own message list) are as they were passed,
\* also with computed fields, dynamic tools, dynamic call params or JSON
\* mode in use.
C14_CallerObjectsUnchanged ==
    SetupReturned =>
        /\ call_params = given.call_params
        /\ fn_args = given.fn_args
        /\ tools = given.tools
        /\ fn_return = given.fn_return

\* the static call params and the static tool list are never changed
C14_StaticObjectsUnchanged ==
    /\ call_params = given.call_params
    /\ tools = given.tools

\* fn_args changes only by the computed fields merged into it, and only
\* when the template is parsed
C14_FnArgsOnlyComputed ==
    SetupReturned =>
        fn_args = IF parse_calls = 1
                  THEN MergedArgs(given.fn_args, GivenComputed)
                  ELSE given.fn_args

\* the function return changes only in its message list, and only when
\* setup_extract in JSON mode appends its instruction to the given list
C14_FnReturnOnlyJsonMode ==
    SetupReturned =>
        \/ fn_return = given.fn_return
        \/ /\ setup_op = "setup_extract"
           /\ ret.json_mode
           /\ MessagesSupplied
           /\ fn_return = [given.fn_return EXCEPT !.messages = Some(ret.messages)]

\* ---- properties of extract_tool_return ----
\* json_output is a strict prefix of a fragment that decodes with
\* allow_partial=false
StrictPrefixOfValid ==
    /\ json_output # full_output
    /\ extract_tool_return(response_model, full_output, FALSE).kind = "return"

\* the fields whose value has not begun in json_output
Undetermined ==
    {i \in 1..Len(TempModel(response_model)) : i \notin MembersBegun(json_output)}

\* C13: extract_tool_return with allow_partial=true never raises on a JSON
\* fragment that is a strict prefix of a fragment that decodes successfully
\* with allow_partial=false, and the fields the prefix does not yet
\* determine are None in what it returns.
C13_PartialNeverRaisesOnPrefix ==
    (extract_state = "done" /\ allow_partial /\ StrictPrefixOfValid) =>
        /\ extract_ret.kind = "return"
        /\ \A i \in Undetermined :
               IF is_base_type(response_model)
               THEN extract_ret.output = NoneOpt
               ELSE extract_ret.output[1][TempModel(response_model)[i].name]
                        = NoneOpt

\* C13 holds of the models whose string fields accept every string
C13_UnconstrainedStrings ==
    response_model = "Book" \/ C13_PartialNeverRaisesOnPrefix

\* and of every prefix that does not end inside the value of a Literal field
C13_NotInsideLiteral ==
    (/\ json_output # <<>>
     /\ Len(json_output) % 4 = 0
     /\ ~json_output[Len(json_output)].closed
     /\ TempModel(response_model)[Len(json_output) \div 4].type = "Literal")
        \/ C13_PartialNeverRaisesOnPrefix

Init ==
    \/ InitSpan
    \/ InitStream
    \/ InitWrap
    \/ InitSetup
    \/ InitCost
    \/ InitGemini
    \/ InitExtract

Next ==
    \/ SpanNext
    \/ StreamNext
    \/ WrapNext
    \/ SetupNext
    \/ CostNext
    \/ GeminiNext
    \/ ExtractNext

Spec == Init /\ [][Next]_vars

====
